---- MODULE Spec2Model ----
(***************************************************************************)
(* Atomic Chess rules engine (class ChessVar of src/ChessVar.py).          *)
(*                                                                         *)
(* The program state is the 8x8 board, the colour to move and the game     *)
(* state.  One operation drives it: make_move(start_square, end_square).   *)
(* make_move is modelled as an operator from a game and two squares to the *)
(* game after the call and the value returned, and the action MakeMove     *)
(* applies it.  explode and update_game_state run inside make_move only    *)
(* (lines 113 and 116) and are part of that operator; handle_explosion     *)
(* (lines 337-365) has no call site.  Spec and SpecArena are the program   *)
(* driven through make_move; SpecAnyCaller adds a host that also calls     *)
(* the three methods itself.  A square in algebraic notation is the pair   *)
(* <<column character, value of the rank digit>>, so "d2" is <<"d", 2>>;   *)
(* chess_notation_to_index decodes it as the code does.                    *)
(***************************************************************************)
EXTENDS Integers, Sequences, FiniteSets, TLC

VARIABLES
    board,           \* self._game_board: board[row][col], rows and columns 0..7
    current_player,  \* self._current_player: "WHITE" or "BLACK"
    game_state,      \* self._game_state: "UNFINISHED", "WHITE_WON", "BLACK_WON"
    result,          \* what the latest make_move call returned ("none" before the first)
    moving_piece,    \* local moving_piece of the latest make_move call ("none" if never assigned)
    captured_piece,  \* local captured_piece of the latest make_move call ("none" if never assigned)
    moves            \* number of make_move calls that returned True so far

vars == <<board, current_player, game_state, result, moving_piece, captured_piece, moves>>

(***************************************************************************)
(* Bounds of the model.                                                    *)
(***************************************************************************)
MaxMoves == 3

MaxArenaMoves == 9

(***************************************************************************)
(* Characters and strings.                                                 *)
(***************************************************************************)
\* Code points of the column characters: "_" lies before "a" and "i" after "h".
ord(ch) ==
    CASE ch = "_" -> 95 [] ch = "a" -> 97 [] ch = "b" -> 98 [] ch = "c" -> 99
      [] ch = "d" -> 100 [] ch = "e" -> 101 [] ch = "f" -> 102 [] ch = "g" -> 103
      [] ch = "h" -> 104 [] ch = "i" -> 105

isupper(p) == p \in {"P", "N", "B", "R", "Q", "K"}

islower(p) == p \in {"p", "n", "b", "r", "q", "k"}

lower(p) ==
    CASE p = "P" -> "p" [] p = "N" -> "n" [] p = "B" -> "b"
      [] p = "R" -> "r" [] p = "Q" -> "q" [] p = "K" -> "k"
      [] OTHER -> p

abs(x) == IF x < 0 THEN -x ELSE x

max(x, y) == IF x > y THEN x ELSE y

min(x, y) == IF x < y THEN x ELSE y

\* Python list indexing: a negative index counts from the end.
PyIndex(i) == IF i < 0 THEN i + 8 ELSE i

\* Python list indexing of a list of length 8 raises IndexError outside -8..7.
PyIndexError(i) == i < -8 \/ i > 7

(***************************************************************************)
(* The board after construction.                                           *)
(***************************************************************************)
InitRows ==
    << <<"r", "n", "b", "q", "k", "b", "n", "r">>,
       <<"p", "p", "p", "p", "p", "p", "p", "p">>,
       <<".", ".", ".", ".", ".", ".", ".", ".">>,
       <<".", ".", ".", ".", ".", ".", ".", ".">>,
       <<".", ".", ".", ".", ".", ".", ".", ".">>,
       <<".", ".", ".", ".", ".", ".", ".", ".">>,
       <<"P", "P", "P", "P", "P", "P", "P", "P">>,
       <<"R", "N", "B", "Q", "K", "B", "N", "R">> >>

InitBoard == [r \in 0..7 |-> [c \in 0..7 |-> InitRows[r + 1][c + 1]]]

\* The board with cell (r, c) set to p.
SetCell(b, r, c, p) == [b EXCEPT ![r][c] = p]

(***************************************************************************)
(* Coordinate codec.                                                       *)
(***************************************************************************)
\* The rank digit taken as the row itself, counted from the top.
chess_notation_to_index_rank_up(notation) ==
    <<notation[2] - 1, ord(notation[1]) - ord("a")>>

chess_notation_to_index(notation) == <<8 - notation[2], ord(notation[1]) - ord("a")>>

is_on_board(row, col) == 0 <= row /\ row < 8 /\ 0 <= col /\ col < 8

is_king(piece) == lower(piece) = "k"

(***************************************************************************)
(* Move legality, one rule per piece kind.                                 *)
(***************************************************************************)
\* is_valid_pawn_move without the rank test of line 193: two steps from any row.
is_valid_pawn_move_any_rank(b, cp, start_row, start_col, end_row, end_col) ==
    LET piece == b[start_row][start_col]
        direction == IF islower(piece) THEN 1 ELSE -1
    IN  \/ /\ start_col = end_col
           /\ b[end_row][end_col] = "."
           /\ \/ start_row + direction = end_row
              \/ /\ start_row + 2 * direction = end_row
                 /\ b[start_row + direction][start_col] = "."
        \/ /\ abs(start_col - end_col) = 1
           /\ start_row + direction = end_row
           /\ b[end_row][end_col] # "."

is_valid_pawn_move(b, cp, start_row, start_col, end_row, end_col) ==
    LET piece == b[start_row][start_col]
        direction == IF islower(piece) THEN 1 ELSE -1
    IN  \/ /\ start_col = end_col
           /\ b[end_row][end_col] = "."
           /\ \/ start_row + direction = end_row
              \/ /\ start_row + 2 * direction = end_row
                 /\ start_row \in {1, 6}
                 /\ b[start_row + direction][start_col] = "."
        \/ /\ abs(start_col - end_col) = 1
           /\ start_row + direction = end_row
           /\ \/ b[end_row][end_col] # "."
              \/ cp = "WHITE" /\ islower(b[end_row][end_col])
              \/ cp = "BLACK" /\ isupper(b[end_row][end_col])

is_valid_knight_move(start_row, start_col, end_row, end_col) ==
    LET row_diff == abs(start_row - end_row)
        col_diff == abs(start_col - end_col)
    IN  (row_diff = 2 /\ col_diff = 1) \/ (row_diff = 1 /\ col_diff = 2)

\* The while loop of is_valid_bishop_move from (current_row, current_col) on:
\* "clear" when the loop ends, "blocked" when it returns False, "IndexError"
\* when a board access raises.
RECURSIVE bishop_scan(_, _, _, _, _, _, _)
bishop_scan(b, current_row, current_col, end_row, end_col, step_row, step_col) ==
    IF ~(current_row # end_row /\ current_col # end_col) THEN "clear"
    ELSE IF PyIndexError(current_row) \/ PyIndexError(current_col) THEN "IndexError"
    ELSE IF b[PyIndex(current_row)][PyIndex(current_col)] # "." THEN "blocked"
    ELSE bishop_scan(b, current_row + step_row, current_col + step_col,
                     end_row, end_col, step_row, step_col)

\* bishop_path with >= for > in lines 236-237: a scan that does not have to
\* go up or right goes down and right.
bishop_path_steps_forward(b, start_row, start_col, end_row, end_col) ==
    LET step_row == IF end_row >= start_row THEN 1 ELSE -1
        step_col == IF end_col >= start_col THEN 1 ELSE -1
    IN  bishop_scan(b, start_row + step_row, start_col + step_col,
                    end_row, end_col, step_row, step_col)

bishop_path(b, start_row, start_col, end_row, end_col) ==
    LET step_row == IF end_row > start_row THEN 1 ELSE -1
        step_col == IF end_col > start_col THEN 1 ELSE -1
    IN  bishop_scan(b, start_row + step_row, start_col + step_col,
                    end_row, end_col, step_row, step_col)

\* is_valid_bishop_move without the loop of lines 240-244: the geometry alone.
is_valid_bishop_move_jumps(b, start_row, start_col, end_row, end_col) ==
    abs(start_row - end_row) = abs(start_col - end_col)

is_valid_bishop_move(b, start_row, start_col, end_row, end_col) ==
    /\ abs(start_row - end_row) = abs(start_col - end_col)
    /\ bishop_path(b, start_row, start_col, end_row, end_col) = "clear"

\* is_valid_bishop_move raises IndexError instead of returning.
bishop_raises(b, start_row, start_col, end_row, end_col) ==
    /\ abs(start_row - end_row) = abs(start_col - end_col)
    /\ bishop_path(b, start_row, start_col, end_row, end_col) = "IndexError"

\* The range(first, stop, step) for step 1 or -1, as a set.
range(first, stop, step) ==
    IF step = 1 THEN {x \in first..(stop - 1) : TRUE}
    ELSE {x \in (stop + 1)..first : TRUE}

is_valid_rook_move(b, cp, start_row, start_col, end_row, end_col) ==
    LET destination_piece == b[end_row][end_col]
    IN  /\ ~(start_row # end_row /\ start_col # end_col)
        /\ IF start_row = end_row
           THEN LET step == IF end_col > start_col THEN 1 ELSE -1
                IN  \A col \in range(start_col + step, end_col, step) :
                        b[start_row][col] = "."
           ELSE LET step == IF end_row > start_row THEN 1 ELSE -1
                IN  \A row \in range(start_row + step, end_row, step) :
                        b[row][start_col] = "."
        /\ IF destination_piece # "."
           THEN \/ isupper(destination_piece) /\ cp = "BLACK"
                \/ islower(destination_piece) /\ cp = "WHITE"
           ELSE TRUE

is_valid_queen_move(b, cp, start_row, start_col, end_row, end_col) ==
    \/ is_valid_bishop_move(b, start_row, start_col, end_row, end_col)
    \/ is_valid_rook_move(b, cp, start_row, start_col, end_row, end_col)

is_valid_king_move(b, start_row, start_col, end_row, end_col) ==
    LET row_diff == abs(start_row - end_row)
        col_diff == abs(start_col - end_col)
    IN  /\ row_diff <= 1 /\ col_diff <= 1
        /\ b[end_row][end_col] = "."

\* is_valid_move without the test of lines 148-151 that the piece belongs to
\* the player to move.
is_valid_move_any_colour(b, cp, start_row, start_col, end_row, end_col) ==
    /\ 0 <= start_row /\ start_row < 8 /\ 0 <= start_col /\ start_col < 8
    /\ 0 <= end_row /\ end_row < 8 /\ 0 <= end_col /\ end_col < 8
    /\ b[start_row][start_col] # "."
    /\ LET kind == lower(b[start_row][start_col])
       IN  CASE kind = "p" -> is_valid_pawn_move(b, cp, start_row, start_col, end_row, end_col)
             [] kind = "n" -> is_valid_knight_move(start_row, start_col, end_row, end_col)
             [] kind = "b" -> is_valid_bishop_move(b, start_row, start_col, end_row, end_col)
             [] kind = "r" -> is_valid_rook_move(b, cp, start_row, start_col, end_row, end_col)
             [] kind = "q" -> is_valid_queen_move(b, cp, start_row, start_col, end_row, end_col)
             [] kind = "k" -> is_valid_king_move(b, start_row, start_col, end_row, end_col)
             [] OTHER -> FALSE

is_valid_move(b, cp, start_row, start_col, end_row, end_col) ==
    /\ 0 <= start_row /\ start_row < 8 /\ 0 <= start_col /\ start_col < 8
    /\ 0 <= end_row /\ end_row < 8 /\ 0 <= end_col /\ end_col < 8
    /\ b[start_row][start_col] # "."
    /\ ~ \/ isupper(b[start_row][start_col]) /\ cp = "BLACK"
         \/ islower(b[start_row][start_col]) /\ cp = "WHITE"
    /\ LET kind == lower(b[start_row][start_col])
       IN  CASE kind = "p" -> is_valid_pawn_move(b, cp, start_row, start_col, end_row, end_col)
             [] kind = "n" -> is_valid_knight_move(start_row, start_col, end_row, end_col)
             [] kind = "b" -> is_valid_bishop_move(b, start_row, start_col, end_row, end_col)
             [] kind = "r" -> is_valid_rook_move(b, cp, start_row, start_col, end_row, end_col)
             [] kind = "q" -> is_valid_queen_move(b, cp, start_row, start_col, end_row, end_col)
             [] kind = "k" -> is_valid_king_move(b, start_row, start_col, end_row, end_col)
             [] OTHER -> FALSE

\* is_valid_move raises IndexError instead of returning: only the diagonal
\* scan indexes the board with computed indices that are not checked first.
is_valid_move_raises(b, cp, start_row, start_col, end_row, end_col) ==
    /\ 0 <= start_row /\ start_row < 8 /\ 0 <= start_col /\ start_col < 8
    /\ 0 <= end_row /\ end_row < 8 /\ 0 <= end_col /\ end_col < 8
    /\ b[start_row][start_col] # "."
    /\ ~ \/ isupper(b[start_row][start_col]) /\ cp = "BLACK"
         \/ islower(b[start_row][start_col]) /\ cp = "WHITE"
    /\ lower(b[start_row][start_col]) \in {"b", "q"}
    /\ bishop_raises(b, start_row, start_col, end_row, end_col)

(***************************************************************************)
(* Explosion.                                                              *)
(***************************************************************************)
\* The cells the loops over range(max(0, row - 1), min(row + 2, 8)) visit.
blast(row, col) ==
    {<<r, c>> \in (max(0, row - 1)..(min(row + 2, 8) - 1))
                  \X (max(0, col - 1)..(min(col + 2, 8) - 1)) : TRUE}

simulate_explosion(b, row, col) ==
    LET white_king_destroyed == \E x \in blast(row, col) : b[x[1]][x[2]] = "K"
        black_king_destroyed == \E x \in blast(row, col) : b[x[1]][x[2]] = "k"
    IN  ~(white_king_destroyed /\ black_king_destroyed)

\* explode with the canonical rule that pawns survive the blast, the capturing
\* piece on the centre square excepted.
explode_spares_pawns(b, gs, row, col) ==
    LET white_king_destroyed == \E x \in blast(row, col) : b[x[1]][x[2]] = "K"
        black_king_destroyed == \E x \in blast(row, col) : b[x[1]][x[2]] = "k"
    IN  IF white_king_destroyed /\ black_king_destroyed
        THEN [board |-> b, game_state |-> gs]
        ELSE [board |-> [r \in 0..7 |-> [c \in 0..7 |->
                            IF /\ <<r, c>> \in blast(row, col)
                               /\ (lower(b[r][c]) # "p" \/ <<r, c>> = <<row, col>>)
                            THEN "." ELSE b[r][c]]],
              game_state |->
                  IF \E x \in blast(row, col) : is_king(b[x[1]][x[2]])
                  THEN IF white_king_destroyed THEN "BLACK_WON" ELSE "WHITE_WON"
                  ELSE gs]

\* explode returns without effect when both kings are in the radius; otherwise
\* every cell of the radius is cleared and each king met sets the game state.
\* All kings met have one colour then, so the order of the scan is immaterial.
explode(b, gs, row, col) ==
    LET white_king_destroyed == \E x \in blast(row, col) : b[x[1]][x[2]] = "K"
        black_king_destroyed == \E x \in blast(row, col) : b[x[1]][x[2]] = "k"
    IN  IF white_king_destroyed /\ black_king_destroyed
        THEN [board |-> b, game_state |-> gs]
        ELSE [board |-> [r \in 0..7 |-> [c \in 0..7 |->
                            IF <<r, c>> \in blast(row, col) THEN "." ELSE b[r][c]]],
              game_state |->
                  IF \E x \in blast(row, col) : is_king(b[x[1]][x[2]])
                  THEN IF white_king_destroyed THEN "BLACK_WON" ELSE "WHITE_WON"
                  ELSE gs]

\* update_game_state that never looks at the board.
update_game_state_skipped(b, gs) == gs

update_game_state(b, gs) ==
    LET white_king == \E r \in 0..7, c \in 0..7 : b[r][c] = "K"
        black_king == \E r \in 0..7, c \in 0..7 : b[r][c] = "k"
    IN  IF ~white_king THEN "BLACK_WON"
        ELSE IF ~black_king THEN "WHITE_WON"
        ELSE gs

(***************************************************************************)
(* make_move.                                                              *)
(***************************************************************************)
\* The move executed with line 102 left out: the start cell keeps the piece.
execute_move_keeps_start(b, start_row, start_col, end_row, end_col) ==
    SetCell(b, end_row, end_col, b[start_row][start_col])

\* Lines 102-103: the move is executed on the board.
execute_move(b, start_row, start_col, end_row, end_col) ==
    SetCell(SetCell(b, start_row, start_col, "."),
            end_row, end_col, b[start_row][start_col])

\* The revert with line 109 left out: the start cell stays empty.
revert_move_end_only(b, start_row, start_col, end_row, end_col, moving, captured) ==
    SetCell(b, end_row, end_col, captured)

\* Lines 109-110: the move is reverted.
revert_move(b, start_row, start_col, end_row, end_col, moving, captured) ==
    SetCell(SetCell(b, start_row, start_col, moving), end_row, end_col, captured)

\* The switch without the test of line 117.
switch_player_always(cp, gs) == IF cp = "WHITE" THEN "BLACK" ELSE "WHITE"

\* The player to move after a call that returned True.
switch_player(cp, gs) ==
    IF gs = "UNFINISHED"
    THEN IF cp = "WHITE" THEN "BLACK" ELSE "WHITE"
    ELSE cp

\* What a call leaves behind: ret is "True", "False" or "IndexError".
Outcome(ret, b, cp, gs, moving, captured) ==
    [ret |-> ret, board |-> b, current_player |-> cp, game_state |-> gs,
     moving_piece |-> moving, captured_piece |-> captured]

\* attempt_move with the test of line 106 left out: every accepted move blasts
\* its destination.
attempt_move_always_explodes(b, cp, gs, start_square, end_square) ==
    LET start_index == chess_notation_to_index(start_square)
        end_index == chess_notation_to_index(end_square)
        start_row == start_index[1]
        start_col == start_index[2]
        end_row == end_index[1]
        end_col == end_index[2]
    IN  IF is_valid_move_raises(b, cp, start_row, start_col, end_row, end_col)
        THEN Outcome("IndexError", b, cp, gs, "none", "none")
        ELSE IF ~is_valid_move(b, cp, start_row, start_col, end_row, end_col)
        THEN Outcome("False", b, cp, gs, "none", "none")
        ELSE
        LET moving == b[start_row][start_col]
            captured == b[end_row][end_col]
            moved == execute_move(b, start_row, start_col, end_row, end_col)
        IN  IF ~simulate_explosion(moved, end_row, end_col)
            THEN Outcome("False",
                         revert_move(moved, start_row, start_col, end_row, end_col,
                                     moving, captured),
                         cp, gs, moving, captured)
            ELSE
            LET exploded == explode(moved, gs, end_row, end_col)
                updated == update_game_state(exploded.board, exploded.game_state)
            IN  Outcome("True", exploded.board, switch_player(cp, updated), updated,
                        moving, captured)

\* Lines 91-119: make_move once the game is known to be unfinished.
attempt_move(b, cp, gs, start_square, end_square) ==
    LET start_index == chess_notation_to_index(start_square)
        end_index == chess_notation_to_index(end_square)
        start_row == start_index[1]
        start_col == start_index[2]
        end_row == end_index[1]
        end_col == end_index[2]
    IN  IF is_valid_move_raises(b, cp, start_row, start_col, end_row, end_col)
        THEN Outcome("IndexError", b, cp, gs, "none", "none")
        ELSE IF ~is_valid_move(b, cp, start_row, start_col, end_row, end_col)
        THEN Outcome("False", b, cp, gs, "none", "none")
        ELSE
        LET moving == b[start_row][start_col]
            captured == b[end_row][end_col]
            moved == execute_move(b, start_row, start_col, end_row, end_col)
        IN  IF captured # "." /\ ~simulate_explosion(moved, end_row, end_col)
            THEN Outcome("False",
                         revert_move(moved, start_row, start_col, end_row, end_col,
                                     moving, captured),
                         cp, gs, moving, captured)
            ELSE
            LET exploded == IF captured # "."
                            THEN explode(moved, gs, end_row, end_col)
                            ELSE [board |-> moved, game_state |-> gs]
                updated == update_game_state(exploded.board, exploded.game_state)
            IN  Outcome("True", exploded.board, switch_player(cp, updated), updated,
                        moving, captured)

\* make_move without the test of line 88.
make_move_after_game_over(b, cp, gs, start_square, end_square) ==
    attempt_move(b, cp, gs, start_square, end_square)

make_move(b, cp, gs, start_square, end_square) ==
    IF gs # "UNFINISHED"
    THEN Outcome("False", b, cp, gs, "none", "none")
    ELSE attempt_move(b, cp, gs, start_square, end_square)

(***************************************************************************)
(* The state machine.                                                      *)
(***************************************************************************)
\* Inputs: a column character among "_", "a".."h", "i" and a rank digit 0..9,
\* so that rows and columns -2 or -1, 0..7 and 8 all occur.  The properties
\* range over all pairs of Squares in every state reached; the calls that
\* carry the game from state to state are drawn from the two smaller sets.
Columns == {"_", "a", "b", "c", "d", "e", "f", "g", "h", "i"}

Digits == 0..9

Squares == Columns \X Digits

\* The squares the calls of the opening game are drawn from: the usage example
\* d2-d4, g7-g5, c1xg5 and the pieces around it.
OpeningSquares ==
    {<<"b", 1>>, <<"c", 1>>, <<"d", 1>>, <<"d", 2>>, <<"c", 3>>, <<"d", 3>>, <<"d", 4>>,
     <<"g", 5>>, <<"g", 7>>, <<"g", 8>>, <<"f", 6>>, <<"h", 6>>}

\* The squares the calls of the king walk are drawn from: the f and e pawns
\* step out, the kings walk to g4 and g5, and the pawns can capture there.
ArenaSquares ==
    {<<"e", 1>>, <<"f", 2>>, <<"f", 4>>, <<"f", 3>>, <<"g", 3>>, <<"g", 4>>,
     <<"e", 8>>, <<"e", 7>>, <<"e", 5>>, <<"f", 6>>, <<"g", 5>>}

Init ==
    /\ board = InitBoard
    /\ current_player = "WHITE"
    /\ game_state = "UNFINISHED"
    /\ result = "none"
    /\ moving_piece = "none"
    /\ captured_piece = "none"
    /\ moves = 0

\* One call make_move(start_square, end_square); at most cap calls return True.
MakeMove(start_square, end_square, cap) ==
    LET out == make_move(board, current_player, game_state, start_square, end_square)
    IN  /\ out.ret = "True" => moves < cap
        /\ board' = out.board
        /\ current_player' = out.current_player
        /\ game_state' = out.game_state
        /\ result' = out.ret
        /\ moving_piece' = out.moving_piece
        /\ captured_piece' = out.captured_piece
        /\ moves' = IF out.ret = "True" THEN moves + 1 ELSE moves

Next == \E start_square \in OpeningSquares, end_square \in OpeningSquares :
            MakeMove(start_square, end_square, MaxMoves)

Spec == Init /\ [][Next]_vars

NextArena == \E start_square \in ArenaSquares, end_square \in ArenaSquares :
                 MakeMove(start_square, end_square, MaxArenaMoves)

SpecArena == Init /\ [][NextArena]_vars

(***************************************************************************)
(* Calls past make_move.  handle_explosion, explode and update_game_state  *)
(* carry no leading underscore, so a host holding the object can call them *)
(* itself, although the class never does so outside make_move.  The        *)
(* actions below stand for such calls and SpecAnyCaller adds them to the   *)
(* opening game.  The properties of make_move are stated over Spec and     *)
(* SpecArena, where make_move is the one operation that is called.         *)
(***************************************************************************)
\* What explode returns: False when both kings are in the radius, else True.
explode_returns(b, row, col) ==
    LET white_king_destroyed == \E x \in blast(row, col) : b[x[1]][x[2]] = "K"
        black_king_destroyed == \E x \in blast(row, col) : b[x[1]][x[2]] = "k"
    IN  IF white_king_destroyed /\ black_king_destroyed THEN "False" ELSE "True"

\* handle_explosion returns False without effect when both kings are in the
\* radius, and otherwise calls explode and returns True.
handle_explosion(b, gs, row, col) ==
    LET white_king_destroyed == \E x \in blast(row, col) : b[x[1]][x[2]] = "K"
        black_king_destroyed == \E x \in blast(row, col) : b[x[1]][x[2]] = "k"
    IN  IF white_king_destroyed /\ black_king_destroyed
        THEN [ret |-> "False", board |-> b, game_state |-> gs]
        ELSE LET exploded == explode(b, gs, row, col)
             IN  [ret |-> "True", board |-> exploded.board,
                  game_state |-> exploded.game_state]

\* The (row, col) the two methods are called with: e8 and e1, where the kings
\* start, e4 in the middle of the board, and one cell off the board, around
\* which the clipped ranges are empty.
BlastCentres == {<<0, 4>>, <<7, 4>>, <<4, 4>>, <<9, 9>>}

\* One call handle_explosion(row, col) from outside make_move.  The turn
\* stays, and so does what is recorded of the latest make_move call; the
\* value the call returns is handle_explosion(...).ret.
HandleExplosion(row, col) ==
    LET out == handle_explosion(board, game_state, row, col)
    IN  /\ board' = out.board
        /\ game_state' = out.game_state
        /\ UNCHANGED <<current_player, result, moving_piece, captured_piece, moves>>

\* One call explode(row, col) from outside make_move; the value the call
\* returns is explode_returns(board, row, col).
Explode(row, col) ==
    LET out == explode(board, game_state, row, col)
    IN  /\ board' = out.board
        /\ game_state' = out.game_state
        /\ UNCHANGED <<current_player, result, moving_piece, captured_piece, moves>>

\* One call update_game_state() from outside make_move; it returns None.
UpdateGameState ==
    /\ game_state' = update_game_state(board, game_state)
    /\ UNCHANGED <<board, current_player, result, moving_piece, captured_piece, moves>>

DirectCall ==
    \/ \E centre \in BlastCentres : HandleExplosion(centre[1], centre[2])
    \/ \E centre \in BlastCentres : Explode(centre[1], centre[2])
    \/ UpdateGameState

NextAnyCaller == Next \/ DirectCall

SpecAnyCaller == Init /\ [][NextAnyCaller]_vars

\* A host that calls explode itself can end a game without a move: the state
\* after explode(0, 4) on the new board.
ExplodedWithoutMove ==
    /\ moves = 0
    /\ game_state = "WHITE_WON"
    /\ board[0][4] = "." /\ board[1][4] = "."

\* After explode(7, 4) and explode(0, 4) no king is left and the state is
\* WHITE_WON until update_game_state() is called.
NoKingWhiteWon ==
    /\ game_state = "WHITE_WON"
    /\ \A r \in 0..7, c \in 0..7 : ~is_king(board[r][c])


(***************************************************************************)
(* Notions the properties are stated in.                                   *)
(***************************************************************************)
\* The call make_move(start_square, end_square) made in the current state.
Call(start_square, end_square) ==
    make_move(board, current_player, game_state, start_square, end_square)

\* The call left board, turn and game state as they are now.
NoChange(out) ==
    /\ out.board = board
    /\ out.current_player = current_player
    /\ out.game_state = game_state

OnBoard(square) ==
    LET i == chess_notation_to_index(square)
    IN  i[1] \in 0..7 /\ i[2] \in 0..7

\* The piece on an on-board square of board b.
PieceAt(b, square) ==
    LET i == chess_notation_to_index(square)
    IN  b[i[1]][i[2]]

Present(b, p) == \E r \in 0..7, c \in 0..7 : b[r][c] = p

ColourOf(p) == IF isupper(p) THEN "WHITE" ELSE "BLACK"

Opponent(cp) == IF cp = "WHITE" THEN "BLACK" ELSE "WHITE"

\* Cell (r, c) is the square itself or one of its up to eight neighbours.
Near(r, c, square) ==
    LET i == chess_notation_to_index(square)
    IN  abs(r - i[1]) <= 1 /\ abs(c - i[2]) <= 1

\* Both kings stand in the 3x3 neighbourhood of the square on board b.
BothKingsNear(b, square) ==
    /\ \E r \in 0..7, c \in 0..7 : Near(r, c, square) /\ b[r][c] = "K"
    /\ \E r \in 0..7, c \in 0..7 : Near(r, c, square) /\ b[r][c] = "k"

\* The call passes the legality check and lands on an occupied square.
IsCapture(start_square, end_square) ==
    LET i == chess_notation_to_index(start_square)
        j == chess_notation_to_index(end_square)
    IN  /\ game_state = "UNFINISHED"
        /\ is_valid_move(board, current_player, i[1], i[2], j[1], j[2])
        /\ board[j[1]][j[2]] # "."

(***************************************************************************)
(* C1.  A call that returns False leaves the board, the turn and the game  *)
(* state as they were, and the same call made again returns False again    *)
(* and again changes nothing.                                              *)
(***************************************************************************)
RejectedMoveChangesNothing ==
    \A start_square \in Squares, end_square \in Squares :
        LET out == Call(start_square, end_square)
        IN  out.ret = "False" =>
                /\ NoChange(out)
                /\ LET again == make_move(out.board, out.current_player, out.game_state,
                                          start_square, end_square)
                   IN  again.ret = "False" /\ NoChange(again)

\* A capture was rolled back: the call got as far as the explosion check and
\* returned False.
RolledBackCapture ==
    /\ result = "False"
    /\ game_state = "UNFINISHED"
    /\ captured_piece \notin {"none", "."}

(***************************************************************************)
(* C2.  A capture whose destination has both kings in its 3x3              *)
(* neighbourhood, on the board as it stands before the move, returns False *)
(* and leaves the board as it was; the captured piece may be a king.       *)
(***************************************************************************)
DoubleKingBlastRejected ==
    \A start_square \in Squares, end_square \in Squares :
        (IsCapture(start_square, end_square) /\ BothKingsNear(board, end_square)) =>
            LET out == Call(start_square, end_square)
            IN  out.ret = "False" /\ NoChange(out)

(***************************************************************************)
(* C3.  An accepted call that removes a king leaves the game won by the    *)
(* colour whose king is still on the board, and some king is on the board  *)
(* in every reachable state.                                               *)
(***************************************************************************)
KingRemovalDecidesWinner ==
    /\ Present(board, "K") \/ Present(board, "k")
    /\ \A start_square \in Squares, end_square \in Squares :
           LET out == Call(start_square, end_square)
           IN  out.ret = "True" =>
                   /\ (Present(board, "k") /\ ~Present(out.board, "k"))
                          => out.game_state = "WHITE_WON"
                   /\ (Present(board, "K") /\ ~Present(out.board, "K"))
                          => out.game_state = "BLACK_WON"

\* While the game is over every make_move call returns False and changes
\* nothing.
CallsAfterGameOverRejected ==
    game_state # "UNFINISHED" =>
        \A start_square \in Squares, end_square \in Squares :
            LET out == Call(start_square, end_square)
            IN  out.ret = "False" /\ NoChange(out)

(***************************************************************************)
(* C4.  WHITE_WON and BLACK_WON are absorbing: once the game state is one  *)
(* of them every make_move call returns False and changes nothing, and the *)
(* game state never changes again, neither back to UNFINISHED nor from one *)
(* winner to the other.                                                    *)
(***************************************************************************)
WonIsAbsorbing ==
    /\ []CallsAfterGameOverRejected
    /\ [][game_state # "UNFINISHED" => game_state' = game_state]_vars

\* A call was made after the game ended.
CallAfterGameOver ==
    /\ game_state \in {"WHITE_WON", "BLACK_WON"}
    /\ result = "False"

(***************************************************************************)
(* C5.  A new game is UNFINISHED with White to move.  An accepted call     *)
(* moves a piece of the colour to move; if the game goes on the turn       *)
(* passes to the other colour, and if it ends the turn stays.  So while    *)
(* the game goes on White is to move after an even number of accepted      *)
(* moves and Black after an odd number.                                    *)
(***************************************************************************)
TurnAlternates ==
    /\ moves = 0 => (game_state = "UNFINISHED" /\ current_player = "WHITE")
    /\ game_state = "UNFINISHED"
           => current_player = (IF moves % 2 = 0 THEN "WHITE" ELSE "BLACK")
    /\ \A start_square \in Squares, end_square \in Squares :
           LET out == Call(start_square, end_square)
           IN  out.ret = "True" =>
                   /\ ColourOf(PieceAt(board, start_square)) = current_player
                   /\ out.game_state = "UNFINISHED"
                          => out.current_player = Opponent(current_player)
                   /\ out.game_state # "UNFINISHED"
                          => out.current_player = current_player

\* White, Black and White again have moved, and the game goes on.
TurnCameBack ==
    /\ result = "True"
    /\ moves = 3
    /\ game_state = "UNFINISHED"
    /\ current_player = "BLACK"

(***************************************************************************)
(* C6.  A call whose start square is empty or holds a piece of the colour  *)
(* that is not to move returns False, whatever the destination.            *)
(***************************************************************************)
WrongTurnRejected ==
    \A start_square \in Squares, end_square \in Squares :
        (/\ OnBoard(start_square)
         /\ \/ PieceAt(board, start_square) = "."
            \/ ColourOf(PieceAt(board, start_square)) # current_player)
            => Call(start_square, end_square).ret = "False"

\* A call was rejected while the game goes on, in a state where a piece of
\* the colour not to move has a move its own rule allows.
WrongTurnCallRejected ==
    /\ result = "False"
    /\ game_state = "UNFINISHED"
    /\ moves >= 1
    /\ \E start_square \in OpeningSquares, end_square \in OpeningSquares :
           LET i == chess_notation_to_index(start_square)
               j == chess_notation_to_index(end_square)
           IN  /\ PieceAt(board, start_square) # "."
               /\ ColourOf(PieceAt(board, start_square)) # current_player
               /\ is_valid_move(board, Opponent(current_player), i[1], i[2], j[1], j[2])
               /\ Call(start_square, end_square).ret = "False"

(***************************************************************************)
(* C7.  A king moving onto an occupied square is rejected, and so is a     *)
(* rook or a queen landing on a piece of its own colour, along a line or   *)
(* along a diagonal.                                                       *)
(***************************************************************************)
OccupiedDestinationRejected ==
    \A start_square \in Squares, end_square \in Squares :
        (OnBoard(start_square) /\ OnBoard(end_square)) =>
            LET mover == PieceAt(board, start_square)
                target == PieceAt(board, end_square)
            IN  /\ (lower(mover) = "k" /\ target # ".")
                       => Call(start_square, end_square).ret = "False"
                /\ (/\ lower(mover) \in {"r", "q"}
                    /\ target # "."
                    /\ ColourOf(target) = ColourOf(mover))
                       => Call(start_square, end_square).ret = "False"

(***************************************************************************)
(* C8.  After an accepted capture every cell of the 3x3 neighbourhood of   *)
(* the destination is empty, the start square is empty, and every other    *)
(* cell holds what it held before.                                         *)
(***************************************************************************)
CaptureClearsNeighbourhood ==
    \A start_square \in Squares, end_square \in Squares :
        LET out == Call(start_square, end_square)
        IN  (out.ret = "True" /\ PieceAt(board, end_square) # ".") =>
                \A r \in 0..7, c \in 0..7 :
                    out.board[r][c] =
                        IF \/ Near(r, c, end_square)
                           \/ <<r, c>> = chess_notation_to_index(start_square)
                        THEN "."
                        ELSE board[r][c]

\* A capture was accepted and a pawn next to the destination went with it.
CaptureExploded ==
    /\ result = "True"
    /\ captured_piece \notin {"none", "."}
    /\ board[6][2] = "." /\ board[6][4] = "."

(***************************************************************************)
(* C9.  From the initial position d2-d4, g7-g5 and c1xg5 each return True  *)
(* and leave an unfinished game, Black to move, in which d2, c1, g7 and g5 *)
(* are empty and d4 holds a white pawn.  In general a capture with no      *)
(* third piece in the neighbourhood of the destination removes the two     *)
(* pieces involved and nothing else, and the game goes on.                 *)
(***************************************************************************)
AfterD2D4 == SetCell(SetCell(InitBoard, 6, 3, "."), 4, 3, "P")

AfterG7G5 == SetCell(SetCell(AfterD2D4, 1, 6, "."), 3, 6, "p")

AfterC1G5 == SetCell(SetCell(AfterG7G5, 7, 2, "."), 3, 6, ".")

\* The call returns True and leaves board b, player cp to move, game unfinished.
Plays(start_square, end_square, b, cp) ==
    LET out == Call(start_square, end_square)
    IN  /\ out.ret = "True"
        /\ out.board = b
        /\ out.current_player = cp
        /\ out.game_state = "UNFINISHED"

OpeningGame ==
    /\ (board = InitBoard /\ current_player = "WHITE" /\ game_state = "UNFINISHED")
           => Plays(<<"d", 2>>, <<"d", 4>>, AfterD2D4, "BLACK")
    /\ (board = AfterD2D4 /\ current_player = "BLACK" /\ game_state = "UNFINISHED")
           => Plays(<<"g", 7>>, <<"g", 5>>, AfterG7G5, "WHITE")
    /\ (board = AfterG7G5 /\ current_player = "WHITE" /\ game_state = "UNFINISHED")
           => Plays(<<"c", 1>>, <<"g", 5>>, AfterC1G5, "BLACK")
    /\ \A start_square \in Squares, end_square \in Squares :
           LET i == chess_notation_to_index(start_square)
               j == chess_notation_to_index(end_square)
               out == Call(start_square, end_square)
           IN  (/\ out.ret = "True"
                /\ board[j[1]][j[2]] # "."
                /\ ~is_king(board[j[1]][j[2]])
                /\ \A r \in 0..7, c \in 0..7 :
                       (Near(r, c, end_square) /\ <<r, c>> \notin {i, j})
                           => board[r][c] = ".")
                   => /\ out.board = SetCell(SetCell(board, i[1], i[2], "."),
                                             j[1], j[2], ".")
                      /\ out.game_state = "UNFINISHED"
                      /\ out.current_player = Opponent(current_player)

\* The three calls have been made and accepted.
OpeningPlayed ==
    /\ board = AfterC1G5
    /\ moves = 3
    /\ result = "True"
    /\ moving_piece = "B"
    /\ captured_piece = "p"
    /\ current_player = "BLACK"
    /\ game_state = "UNFINISHED"

(***************************************************************************)
(* C10.  Between calls the game state agrees with the kings on the board:  *)
(* UNFINISHED exactly when both kings are there, BLACK_WON only without    *)
(* the white king, WHITE_WON only without the black and with the white     *)
(* king.                                                                   *)
(***************************************************************************)
GameStateAgreesWithKings ==
    /\ game_state = "UNFINISHED" <=> (Present(board, "K") /\ Present(board, "k"))
    /\ game_state = "BLACK_WON" => ~Present(board, "K")
    /\ game_state = "WHITE_WON" => (~Present(board, "k") /\ Present(board, "K"))

\* One accepted call has taken both kings off the board.
BothKingsGone ==
    /\ result = "True"
    /\ game_state = "BLACK_WON"
    /\ ~Present(board, "K")
    /\ ~Present(board, "k")

\* An accepted call with an empty destination changes the start cell and the
\* destination and nothing else, keeps the game going and passes the turn.
QuietMoveChangesTwoCells ==
    \A start_square \in Squares, end_square \in Squares :
        LET out == Call(start_square, end_square)
            i == chess_notation_to_index(start_square)
            j == chess_notation_to_index(end_square)
        IN  (out.ret = "True" /\ PieceAt(board, end_square) = ".") =>
                /\ i # j
                /\ board[i[1]][i[2]] # "."
                /\ out.board[i[1]][i[2]] = "."
                /\ out.board[j[1]][j[2]] = board[i[1]][i[2]]
                /\ \A r \in 0..7, c \in 0..7 :
                       (<<r, c>> # i /\ <<r, c>> # j) => out.board[r][c] = board[r][c]
                /\ out.game_state = "UNFINISHED"
                /\ out.current_player = Opponent(current_player)

\* A step that ends the game is a make_move call that returned True and
\* landed on an occupied square.
EndsOnCapture ==
    (game_state = "UNFINISHED" /\ game_state' # "UNFINISHED") =>
        /\ moves' = moves + 1
        /\ result' = "True"
        /\ captured_piece' \notin {"none", "."}

(***************************************************************************)
(* C11.  An accepted quiet move, that is a call that returns True with an  *)
(* empty destination, changes exactly two cells: the start cell becomes    *)
(* empty and the destination holds the piece that stood on the start cell. *)
(* The other 62 cells stay, the game state stays UNFINISHED and the turn   *)
(* passes to the other player.  So the game ends only on a capturing move. *)
(***************************************************************************)
GameEndsOnlyOnCapture ==
    /\ []QuietMoveChangesTwoCells
    /\ [][EndsOnCapture]_vars

\* A quiet move has just been accepted next to other pieces, which stand.
QuietMoveAccepted ==
    /\ result = "True"
    /\ captured_piece = "."
    /\ moving_piece = "k"
    /\ board[3][6] = "k"
    /\ board[4][6] = "K"
    /\ game_state = "UNFINISHED"
    /\ current_player = "WHITE"

\* The lines the sliding pieces move along, in board indices.
OnDiagonal(i, j) == abs(i[1] - j[1]) = abs(i[2] - j[2])

OnRankOrFile(i, j) == i[1] = j[1] \/ i[2] = j[2]

\* The cells of the board strictly between i and j on their common line.
Between(i, j) ==
    {x \in (0..7) \X (0..7) :
        /\ x # i /\ x # j
        /\ min(i[1], j[1]) <= x[1] /\ x[1] <= max(i[1], j[1])
        /\ min(i[2], j[2]) <= x[2] /\ x[2] <= max(i[2], j[2])
        /\ (x[1] - i[1]) * (j[2] - i[2]) = (x[2] - i[2]) * (j[1] - i[1])}

PathObstructed(b, i, j) ==
    /\ OnDiagonal(i, j) \/ OnRankOrFile(i, j)
    /\ \E x \in Between(i, j) : b[x[1]][x[2]] # "."

LineOfKind(kind, i, j) ==
    CASE kind = "b" -> OnDiagonal(i, j)
      [] kind = "r" -> OnRankOrFile(i, j)
      [] kind = "q" -> OnDiagonal(i, j) \/ OnRankOrFile(i, j)

(***************************************************************************)
(* C12.  For a bishop, rook or queen of the colour to move, make_move      *)
(* returns False whenever a square strictly between start and destination  *)
(* on their common diagonal, rank or file is occupied, and whenever start  *)
(* and destination are not on a line the piece kind moves along: a         *)
(* diagonal for the bishop, a rank or file for the rook, either for the    *)
(* queen.                                                                  *)
(***************************************************************************)
BlockedSliderRejected ==
    \A start_square \in Squares :
        (/\ OnBoard(start_square)
         /\ lower(PieceAt(board, start_square)) \in {"b", "r", "q"}
         /\ ColourOf(PieceAt(board, start_square)) = current_player) =>
            \A end_square \in Squares :
                LET i == chess_notation_to_index(start_square)
                    j == chess_notation_to_index(end_square)
                    kind == lower(PieceAt(board, start_square))
                IN  (PathObstructed(board, i, j) \/ ~LineOfKind(kind, i, j)) =>
                        Call(start_square, end_square).ret = "False"

\* After d2-d4 and g7-g5 the bishop on c1 sees d2, e3 and f4 empty and the
\* pawn on g5 in its way to h6; a call has been rejected in that position.
BishopBehindPawn ==
    /\ board = AfterG7G5
    /\ current_player = "WHITE"
    /\ game_state = "UNFINISHED"
    /\ result = "False"
    /\ PathObstructed(board, chess_notation_to_index(<<"c", 1>>),
                      chess_notation_to_index(<<"h", 6>>))
    /\ \A x \in Between(chess_notation_to_index(<<"c", 1>>),
                        chess_notation_to_index(<<"g", 5>>)) :
           board[x[1]][x[2]] = "."
    /\ Call(<<"c", 1>>, <<"h", 6>>).ret = "False"

\* The pawn rule as stated: cell i holds a pawn of the given colour, j is the
\* destination, both on the board.  Forward is towards row 0 for White and
\* towards row 7 for Black.
PawnStep(b, colour, i, j) ==
    LET forward == IF colour = "WHITE" THEN -1 ELSE 1
    IN  /\ j[2] = i[2]
        /\ j[1] = i[1] + forward
        /\ b[j[1]][j[2]] = "."

PawnTwoStep(b, colour, i, j) ==
    LET forward == IF colour = "WHITE" THEN -1 ELSE 1
        starting_rank == IF colour = "WHITE" THEN 6 ELSE 1
    IN  /\ j[2] = i[2]
        /\ j[1] = i[1] + 2 * forward
        /\ i[1] = starting_rank
        /\ b[i[1] + forward][i[2]] = "."
        /\ b[j[1]][j[2]] = "."

PawnCapture(b, colour, i, j) ==
    LET forward == IF colour = "WHITE" THEN -1 ELSE 1
    IN  /\ abs(j[2] - i[2]) = 1
        /\ j[1] = i[1] + forward
        /\ b[j[1]][j[2]] # "."

(***************************************************************************)
(* C13.  For a pawn of the colour to move and squares on the board,        *)
(* is_valid_move accepts exactly the one step forward onto an empty cell,  *)
(* the two steps forward from the starting rank (row 6 for White, row 1    *)
(* for Black) over an empty cell onto an empty cell, and the step one      *)
(* column over and one row forward onto an occupied cell.                  *)
(***************************************************************************)
PawnRuleExact ==
    \A start_square \in Squares :
        (/\ OnBoard(start_square)
         /\ lower(PieceAt(board, start_square)) = "p"
         /\ ColourOf(PieceAt(board, start_square)) = current_player) =>
            \A end_square \in Squares :
                OnBoard(end_square) =>
                    LET i == chess_notation_to_index(start_square)
                        j == chess_notation_to_index(end_square)
                    IN  /\ ~is_valid_move_raises(board, current_player,
                                                 i[1], i[2], j[1], j[2])
                        /\ is_valid_move(board, current_player, i[1], i[2], j[1], j[2])
                               <=> \/ PawnStep(board, current_player, i, j)
                                   \/ PawnTwoStep(board, current_player, i, j)
                                   \/ PawnCapture(board, current_player, i, j)

\* The white pawn has gone f2-f4 and has just captured the black pawn on e5;
\* both are gone.
PawnHasCaptured ==
    /\ result = "True"
    /\ moving_piece = "P"
    /\ captured_piece = "p"
    /\ board[6][5] = "."
    /\ board[4][5] = "."
    /\ board[3][4] = "."
    /\ board[1][4] = "."

(***************************************************************************)
(* C14.  For every square s, on the board or off it, make_move(s, s)       *)
(* returns False and does not raise, whatever stands on s.  For a bishop   *)
(* or queen the diagonal scan leaves s towards row -1 and column -1 and    *)
(* goes on through negative indices.                                       *)
(***************************************************************************)
ZeroDisplacementRejected ==
    \A s \in Squares : Call(s, s).ret = "False"

\* After Nb1-c3 it is Black's turn and a call has been rejected; the scan of
\* make_move('c8', 'c8') leaves the bishop at row -1, column 1, which is the
\* empty b1, and stops at row -2, column 0, which is the pawn on a2.
ScanWrapsAround ==
    /\ result = "False"
    /\ game_state = "UNFINISHED"
    /\ current_player = "BLACK"
    /\ board[0][2] = "b"
    /\ board[PyIndex(-1)][PyIndex(1)] = "."
    /\ board[PyIndex(-2)][PyIndex(0)] = "P"
    /\ bishop_path(board, 0, 2, 0, 2) = "blocked"
    /\ Call(<<"c", 8>>, <<"c", 8>>).ret = "False"

\* The twelve piece characters, and the counts of pieces on a board.
Pieces == {"P", "N", "B", "R", "Q", "K", "p", "n", "b", "r", "q", "k"}

Count(b, p) == Cardinality({x \in (0..7) \X (0..7) : b[x[1]][x[2]] = p})

Total(b) == Cardinality({x \in (0..7) \X (0..7) : b[x[1]][x[2]] # "."})

(***************************************************************************)
(* C15.  No call creates a piece.  A call that does not return True and a  *)
(* call that returns True with an empty destination leave the number of    *)
(* pieces of every kind and colour as it was; a call that returns True     *)
(* with an occupied destination raises none of these numbers and lowers    *)
(* the total by at least two.  Every state has at most one white king, at  *)
(* most one black king and at most 32 pieces.                              *)
(***************************************************************************)
NoPieceCreated ==
    /\ Count(board, "K") <= 1
    /\ Count(board, "k") <= 1
    /\ Total(board) <= 32
    /\ \A start_square \in Squares, end_square \in Squares :
           LET out == Call(start_square, end_square)
           IN  IF out.ret # "True" \/ PieceAt(board, end_square) = "."
               THEN \/ out.board = board
                    \/ \A p \in Pieces : Count(out.board, p) = Count(board, p)
               ELSE /\ \A p \in Pieces : Count(out.board, p) <= Count(board, p)
                    /\ Total(out.board) + 2 <= Total(board)

\* After d2-d4 and Ng8-h6 the bishop has captured on h6: bishop, knight and
\* the pawns on g7 and h7 are gone, 28 pieces are left.
CaptureTookFour ==
    /\ result = "True"
    /\ moving_piece = "B"
    /\ captured_piece = "n"
    /\ game_state = "UNFINISHED"
    /\ Total(board) = 28
    /\ Count(board, "B") = 1
    /\ Count(board, "n") = 1
    /\ Count(board, "p") = 6

====
